---- MODULE Spec2Model ----
(***************************************************************************)
(* Model of the message coalescing pipeline of this repository:            *)
(*   src/useWebSocket.js      the Connection Adapter  (hook useWebSocket)  *)
(*   src/batchingMessages.js  the Batching Coalescer (useBatchedMessages)  *)
(*                                                                         *)
(* useBatchedMessages calls useWebSocket(url, handler) with an inline      *)
(* handler that pushes to batchRef.current, and owns a setInterval timer   *)
(* whose callback hands batchRef.current to onBatchMessage and then        *)
(* installs a new array.  One component instance is modelled: its renders, *)
(* the effects and cleanups React runs for them, the sockets and timers    *)
(* they create, and the events the browser dispatches to the registered    *)
(* handlers (one event at a time: the event loop is single threaded).      *)
(* The free identifier useWebSocket of batchingMessages.js is the default  *)
(* export of useWebSocket.js.                                              *)
(***************************************************************************)
EXTENDS Integers, Sequences, FiniteSets, TLC

(***************************************************************************)
(* Bounds of the model.                                                    *)
(***************************************************************************)
\* renders of the component instance (the first one is the mount)
MaxRenders == 2
\* frames the transport yields over the whole run
MaxFrames == 2
\* onBatchMessage invocations over the whole run
MaxBatches == 2
\* frames received on one socket and not yet dispatched
MaxInbox == 1
MaxActivations == 3

\* the unit of time, in ms: batchInterval is 100 or 250
Quantum == 50

(***************************************************************************)
(* Inputs: the arguments of useBatchedMessages and the frames of the       *)
(* transport.  A frame is the text of event.data, one character per        *)
(* element.                                                                *)
(***************************************************************************)
\* the arguments (url, onBatchMessage, batchInterval) of the first render
\* (batchInterval = 100 is the default argument value)
FirstArgs == <<"wss://a", "onBatchA", 100>>

\* the arguments a later render may pass: the first ones again, or one of the
\* three that change one argument of them
Args ==
    { FirstArgs, <<"wss://b", "onBatchA", 100>>,
      <<"wss://a", "onBatchB", 100>>, <<"wss://a", "onBatchA", 250>> }

FrameArr == <<"[", "1", ",", "2", "0", "]">>

FrameTruncated == <<"[", "1">>

WellFormedFrames == {FrameArr}

MalformedFrames == {FrameTruncated}

Frames == WellFormedFrames \cup MalformedFrames

(***************************************************************************)
(* JSON.parse, for the JSON texts made of unsigned integers and arrays.    *)
(* A number is "0" or a non-zero digit followed by digits; an array is     *)
(* "[" "]" or "[" value ("," value)* "]".  The result of a parse step is   *)
(* [ok, val, next]: next is the index of the first character not consumed. *)
(* JSONparse succeeds when one value spans the whole text, and otherwise   *)
(* stands for the SyntaxError that JSON.parse throws.                      *)
(***************************************************************************)
DigitChars == <<"0", "1", "2", "3", "4", "5", "6", "7", "8", "9">>

IsDigit(c) == \E k \in 1..10 : DigitChars[k] = c

DigitVal(c) == (CHOOSE k \in 1..10 : DigitChars[k] = c) - 1

ParseFail == [ok |-> FALSE, val |-> [t |-> "none"], next |-> 0]

RECURSIVE ParseDigits(_, _, _)
ParseDigits(s, i, acc) ==
    IF i <= Len(s) /\ IsDigit(s[i])
    THEN ParseDigits(s, i + 1, 10 * acc + DigitVal(s[i]))
    ELSE [ok |-> TRUE, val |-> [t |-> "num", n |-> acc], next |-> i]

ParseNumber(s, i) ==
    IF s[i] = "0"
    THEN [ok |-> TRUE, val |-> [t |-> "num", n |-> 0], next |-> i + 1]
    ELSE ParseDigits(s, i, 0)

RECURSIVE ParseValue(_, _)
RECURSIVE ParseElements(_, _, _)
ParseValue(s, i) ==
    IF i > Len(s) THEN ParseFail
    ELSE IF IsDigit(s[i]) THEN ParseNumber(s, i)
    ELSE IF s[i] = "["
         THEN IF i + 1 <= Len(s) /\ s[i + 1] = "]"
              THEN [ok |-> TRUE, val |-> [t |-> "arr", items |-> <<>>], next |-> i + 2]
              ELSE ParseElements(s, i + 1, <<>>)
    ELSE ParseFail

ParseElements(s, i, acc) ==
    LET r == ParseValue(s, i) IN
    IF ~r.ok THEN ParseFail
    ELSE IF r.next > Len(s) THEN ParseFail
    ELSE IF s[r.next] = ","
         THEN ParseElements(s, r.next + 1, Append(acc, r.val))
    ELSE IF s[r.next] = "]"
         THEN [ok |-> TRUE, val |-> [t |-> "arr", items |-> Append(acc, r.val)],
               next |-> r.next + 1]
    ELSE ParseFail

JSONparse(s) ==
    LET r == ParseValue(s, 1) IN
    IF r.ok /\ r.next = Len(s) + 1
    THEN [ok |-> TRUE, val |-> r.val]
    ELSE [ok |-> FALSE, val |-> [t |-> "none"]]

(***************************************************************************)
(* State.                                                                  *)
(*   phase        "idle" before the first render, "running" while the      *)
(*                component is mounted, "unmounted" after its teardown     *)
(*   renders      number of renders so far; the inline handler created by  *)
(*                render r (batchingMessages.js:5) is the reference r      *)
(*   wsDeps       [url, onMessage] of the last run of the socket effect    *)
(*   timerDeps    [batchInterval, onBatchMessage] of the last timer effect *)
(*   socketRef    socketRef.current: index into sockets, 0 for null        *)
(*   interval     the timer id held by the timer effect's cleanup, 0 none  *)
(*   sockets      every WebSocket created so far                           *)
(*   timers       the map of active timers: timer id -> period, callback   *)
(*   timerIds     number of timer ids handed out by setInterval so far     *)
(*   arrays       the arrays created for batchRef, by identity             *)
(*   batchRef     batchRef.current: index into arrays, 0 before the mount  *)
(* History, for stating the properties:                                    *)
(*   received     number of frames the transport has yielded               *)
(*   yielded      the frames dispatched to an OPEN socket, in order        *)
(*   onMessageCalls  the onMessage invocations, in order                   *)
(*   batches      the onBatchMessage invocations, in order                 *)
(*   sinceTick    the messages appended since the last timer tick          *)
(*   afterThrow   the last onBatchMessage invocation threw                 *)
(***************************************************************************)
VARIABLES phase, renders, wsDeps, timerDeps, socketRef, interval, sockets,
          timers, timerIds, arrays, batchRef, received, yielded,
          onMessageCalls, batches, sinceTick, afterThrow, clock, waiting

vars == <<phase, renders, wsDeps, timerDeps, socketRef, interval, sockets,
          timers, timerIds, arrays, batchRef, received, yielded,
          onMessageCalls, batches, sinceTick, afterThrow, clock, waiting>>

hookVars == <<phase, renders, wsDeps, timerDeps, socketRef, interval>>

historyVars == <<received, yielded, onMessageCalls, batches, sinceTick, afterThrow>>

\* the time, in units of Quantum ms, since the active timer was set or last
\* fired, and the time the oldest message of the Buffer has been in it; both
\* move only in the timed specification
timeVars == <<clock, waiting>>

\* the Buffer: the array batchRef.current points at
Buffer == IF batchRef = 0 THEN <<>> ELSE arrays[batchRef]

(***************************************************************************)
(* The WebSocket object, as far as the hook uses it.                       *)
(***************************************************************************)
\* new WebSocket(url) with the three handler assignments that follow it
NewWebSocket(u, h) ==
    [url |-> u, readyState |-> "CONNECTING", onmessage |-> h, inbox |-> <<>>,
     released |-> FALSE]

\* variant of close() that does nothing
WebSocketCloseNoOp(sock) == sock

\* variant of close() that restarts the closing handshake of a closed socket
WebSocketCloseAlways(sock) == [sock EXCEPT !.readyState = "CLOSING"]

\* socket.close(): starts the closing handshake unless already closing or closed
WebSocketClose(sock) ==
    IF sock.readyState \in {"CLOSING", "CLOSED"}
    THEN sock
    ELSE [sock EXCEPT !.readyState = "CLOSING"]

(***************************************************************************)
(* useWebSocket: the effect body and its cleanup.                          *)
(***************************************************************************)
\* variant of the cleanup that forgets socketRef.current.close()
useWebSocketCleanupNoClose(ss, ref) == [ss EXCEPT ![ref].released = TRUE]

\* the cleanup: socketRef.current.close()
useWebSocketCleanup(ss, ref) ==
    [ss EXCEPT ![ref] = [WebSocketClose(ss[ref]) EXCEPT !.released = TRUE]]

\* the effect body: socketRef.current = new WebSocket(url), handlers assigned
useWebSocketEffect(ss, u, h) == Append(ss, NewWebSocket(u, h))

\* variant of the comparison that looks at the first dependency only
DepsChangedFirstOnly(old, new) == old[1] # new[1]

\* React re-runs an effect when some dependency differs (Object.is) from the last run
DepsChanged(old, new) == \E k \in 1..Len(new) : old[k] # new[k]

\* variant of the handler that forwards the message twice
onmessageTwice(data) ==
    LET p == JSONparse(data) IN
    IF p.ok THEN <<p.val, p.val>> ELSE <<>>

\* variant of the handler that catches the parse failure and forwards an
\* undefined message
onmessageSwallow(data) == <<JSONparse(data).val>>

\* socketRef.current.onmessage: the onMessage invocations made for one event
\* (none when JSON.parse throws), as the sequence of their arguments
onmessage(data) ==
    LET p == JSONparse(data) IN
    IF p.ok THEN <<p.val>> ELSE <<>>

(***************************************************************************)
(* useBatchedMessages: the per-message handler, the timer effect, the      *)
(* flush callback.                                                         *)
(***************************************************************************)
\* variant of the inline handler that overwrites the Buffer with the message
onMessageOverwrite(arr, message) == <<message>>

\* the inline handler: batchRef.current.push(message)
onMessage(arr, message) == Append(arr, message)

RECURSIVE PushAll(_, _)
PushAll(arr, msgs) ==
    IF msgs = <<>> THEN arr ELSE PushAll(onMessage(arr, Head(msgs)), Tail(msgs))

\* setInterval(callback, batchInterval): enters the timer under a new id into
\* the map of active timers; the callback closes over onBatchMessage
setInterval(ts, id, ms, cb) ==
    [k \in DOMAIN ts \cup {id} |->
        IF k = id THEN [period |-> ms, cb |-> cb] ELSE ts[k]]

\* variant of clearInterval that leaves the timer active
clearIntervalNoOp(ts, id) == ts

\* clearInterval(interval): removes the id from the map of active timers
clearInterval(ts, id) == [k \in DOMAIN ts \ {id} |-> ts[k]]

\* variant of the callback without the length test
FlushCallbackNoLengthTest(buf, outcome) ==
    [invoke |-> TRUE, fresh |-> outcome = "return", live |-> TRUE]

\* variant of the callback that cancels its timer when onBatchMessage throws
FlushCallbackCancelOnThrow(buf, outcome) ==
    [invoke |-> Len(buf) # 0,
     fresh  |-> Len(buf) # 0 /\ outcome = "return",
     live   |-> ~(Len(buf) # 0 /\ outcome = "throw")]

\* the setInterval callback, on a buffer buf when onBatchMessage ends with
\* outcome: invoke tells whether onBatchMessage(batchRef.current) is called,
\* fresh whether batchRef.current = [] is reached, live whether the timer
\* keeps running
FlushCallback(buf, outcome) ==
    [invoke |-> Len(buf) # 0,
     fresh  |-> Len(buf) # 0 /\ outcome = "return",
     live   |-> TRUE]

(***************************************************************************)
(* Initial state: the component has not rendered yet.                      *)
(***************************************************************************)
Init ==
    /\ phase = "idle"
    /\ renders = 0
    /\ wsDeps = <<>>
    /\ timerDeps = <<>>
    /\ socketRef = 0
    /\ interval = 0
    /\ sockets = <<>>
    /\ timers = <<>>
    /\ timerIds = 0
    /\ arrays = <<>>
    /\ batchRef = 0
    /\ received = 0
    /\ yielded = <<>>
    /\ onMessageCalls = <<>>
    /\ batches = <<>>
    /\ sinceTick = <<>>
    /\ afterThrow = FALSE
    /\ clock = 0
    /\ waiting = 0

(***************************************************************************)
(* Renders of the component that calls                                     *)
(* useBatchedMessages(u, cb, ms), with the effects React commits for them. *)
(***************************************************************************)
\* first render (start): useRef([]) creates the Buffer, both effects run
Mount(u, cb, ms) ==
    /\ phase = "idle"
    /\ phase' = "running"
    /\ renders' = 1
    /\ arrays' = << <<>> >>
    /\ batchRef' = 1
    /\ sockets' = useWebSocketEffect(sockets, u, 1)
    /\ socketRef' = Len(sockets) + 1
    /\ wsDeps' = <<u, 1>>
    /\ timers' = setInterval(timers, timerIds + 1, ms, cb)
    /\ timerIds' = timerIds + 1
    /\ interval' = timerIds + 1
    /\ timerDeps' = <<ms, cb>>
    /\ UNCHANGED historyVars

\* variant of a later render in which the per-message handler is memoised,
\* so that it is the same reference as in the previous render
RerenderStableHandler(u, cb, ms) ==
    LET h == wsDeps[2]
        wsChanged == DepsChanged(wsDeps, <<u, h>>)
        tmChanged == DepsChanged(timerDeps, <<ms, cb>>)
    IN
    /\ phase = "running"
    /\ renders < MaxRenders
    /\ renders' = renders + 1
    /\ IF wsChanged
       THEN /\ sockets' = useWebSocketEffect(useWebSocketCleanup(sockets, socketRef), u, h)
            /\ socketRef' = Len(sockets) + 1
            /\ wsDeps' = <<u, h>>
       ELSE UNCHANGED <<sockets, socketRef, wsDeps>>
    /\ IF tmChanged
       THEN /\ timers' = setInterval(clearInterval(timers, interval),
                                     timerIds + 1, ms, cb)
            /\ timerIds' = timerIds + 1
            /\ interval' = timerIds + 1
            /\ timerDeps' = <<ms, cb>>
       ELSE UNCHANGED <<timers, timerIds, interval, timerDeps>>
    /\ UNCHANGED <<phase, arrays, batchRef>>
    /\ UNCHANGED historyVars

\* a later render: a new inline handler is created; each effect whose
\* dependencies changed runs its cleanup and then its body again
Rerender(u, cb, ms) ==
    LET h == renders + 1
        wsChanged == DepsChanged(wsDeps, <<u, h>>)
        tmChanged == DepsChanged(timerDeps, <<ms, cb>>)
    IN
    /\ phase = "running"
    /\ renders < MaxRenders
    /\ renders' = h
    /\ IF wsChanged
       THEN /\ sockets' = useWebSocketEffect(useWebSocketCleanup(sockets, socketRef), u, h)
            /\ socketRef' = Len(sockets) + 1
            /\ wsDeps' = <<u, h>>
       ELSE UNCHANGED <<sockets, socketRef, wsDeps>>
    /\ IF tmChanged
       THEN /\ timers' = setInterval(clearInterval(timers, interval),
                                     timerIds + 1, ms, cb)
            /\ timerIds' = timerIds + 1
            /\ interval' = timerIds + 1
            /\ timerDeps' = <<ms, cb>>
       ELSE UNCHANGED <<timers, timerIds, interval, timerDeps>>
    /\ UNCHANGED <<phase, arrays, batchRef>>
    /\ UNCHANGED historyVars

\* variant of the teardown in which the timer effect returns no cleanup
UnmountKeepsTimer ==
    /\ phase = "running"
    /\ phase' = "unmounted"
    /\ sockets' = useWebSocketCleanup(sockets, socketRef)
    /\ UNCHANGED <<renders, wsDeps, timerDeps, socketRef, interval, timers,
                   timerIds, arrays, batchRef>>
    /\ UNCHANGED historyVars

\* teardown (stop): both cleanups run
Unmount ==
    /\ phase = "running"
    /\ phase' = "unmounted"
    /\ sockets' = useWebSocketCleanup(sockets, socketRef)
    /\ timers' = clearInterval(timers, interval)
    /\ UNCHANGED <<renders, wsDeps, timerDeps, socketRef, interval, timerIds,
                   arrays, batchRef>>
    /\ UNCHANGED historyVars

(***************************************************************************)
(* Events of a socket.  The browser dispatches them in queue order: the    *)
(* close event of a socket comes after the message events queued before    *)
(* it, and a message event is fired only on a socket that is OPEN.         *)
(***************************************************************************)
\* the connection is established: onopen logs
SocketOpen(c) ==
    /\ sockets[c].readyState = "CONNECTING"
    /\ sockets' = [sockets EXCEPT ![c].readyState = "OPEN"]
    /\ UNCHANGED <<hookVars, timers, timerIds, arrays, batchRef>>
    /\ UNCHANGED historyVars

\* variant in which onclose opens a new connection to the same url
SocketClosedReconnect(c) ==
    /\ sockets[c].readyState \in {"CONNECTING", "OPEN", "CLOSING"}
    /\ sockets[c].inbox = <<>>
    /\ IF c = socketRef /\ ~sockets[c].released /\ phase = "running"
       THEN /\ sockets' = useWebSocketEffect(
                              [sockets EXCEPT ![c].readyState = "CLOSED"],
                              sockets[c].url, sockets[c].onmessage)
            /\ socketRef' = Len(sockets) + 1
       ELSE /\ sockets' = [sockets EXCEPT ![c].readyState = "CLOSED"]
            /\ socketRef' = socketRef
    /\ UNCHANGED <<phase, renders, wsDeps, timerDeps, interval>>
    /\ UNCHANGED <<timers, timerIds, arrays, batchRef>>
    /\ UNCHANGED historyVars

\* establishment failure, remote close, or end of the closing handshake:
\* onclose logs
SocketClosed(c) ==
    /\ sockets[c].readyState \in {"CONNECTING", "OPEN", "CLOSING"}
    /\ sockets[c].inbox = <<>>
    /\ sockets' = [sockets EXCEPT ![c].readyState = "CLOSED"]
    /\ UNCHANGED <<hookVars, timers, timerIds, arrays, batchRef>>
    /\ UNCHANGED historyVars

\* the transport yields a frame for socket c
FrameArrives(c, f) ==
    /\ sockets[c].readyState = "OPEN"
    /\ received < MaxFrames
    /\ Len(sockets[c].inbox) < MaxInbox
    /\ received' = received + 1
    /\ sockets' = [sockets EXCEPT ![c].inbox =
                       Append(@, [id |-> received + 1, data |-> f])]
    /\ UNCHANGED <<hookVars, timers, timerIds, arrays, batchRef>>
    /\ UNCHANGED <<yielded, onMessageCalls, batches, sinceTick, afterThrow>>

\* the message event of the oldest undispatched frame of socket c
DispatchMessage(c) ==
    /\ sockets[c].inbox # <<>>
    /\ LET fr == Head(sockets[c].inbox)
           open == sockets[c].readyState = "OPEN"
           args == IF open THEN onmessage(fr.data) ELSE <<>>
           msgs == [k \in 1..Len(args) |-> [id |-> fr.id, val |-> args[k]]]
       IN
       /\ sockets' = [sockets EXCEPT ![c].inbox = Tail(@)]
       /\ yielded' = IF open
                     THEN Append(yielded, [conn |-> c, id |-> fr.id, data |-> fr.data])
                     ELSE yielded
       /\ onMessageCalls' = onMessageCalls \o
                               [k \in 1..Len(msgs) |->
                                   [conn |-> c, handler |-> sockets[c].onmessage,
                                    id |-> msgs[k].id, val |-> msgs[k].val]]
       /\ arrays' = [arrays EXCEPT ![batchRef] = PushAll(@, msgs)]
       /\ sinceTick' = sinceTick \o msgs
       /\ UNCHANGED <<hookVars, timers, timerIds, batchRef, received, batches, afterThrow>>

(***************************************************************************)
(* A tick of timer t: the setInterval callback runs, and onBatchMessage,   *)
(* if invoked, returns or throws.                                          *)
(***************************************************************************)
Tick(t, outcome) ==
    LET res == FlushCallback(Buffer, outcome) IN
    /\ t \in DOMAIN timers
    /\ res.invoke => Len(batches) < MaxBatches
    /\ ~res.invoke => outcome = "return"
    /\ batches' = IF res.invoke
                  THEN Append(batches, [arr |-> batchRef, msgs |-> Buffer,
                                        cb |-> timers[t].cb,
                                        outcome |-> outcome])
                  ELSE batches
    /\ arrays' = IF res.fresh THEN Append(arrays, <<>>) ELSE arrays
    /\ batchRef' = IF res.fresh THEN Len(arrays) + 1 ELSE batchRef
    /\ timers' = IF res.live THEN timers ELSE clearInterval(timers, t)
    /\ sinceTick' = <<>>
    /\ afterThrow' = IF res.invoke THEN outcome = "throw" ELSE afterThrow
    /\ UNCHANGED <<hookVars, timerIds, sockets, received, yielded, onMessageCalls>>

Next ==
    \/ Mount(FirstArgs[1], FirstArgs[2], FirstArgs[3]) /\ UNCHANGED timeVars
    \/ \E a \in Args : Rerender(a[1], a[2], a[3]) /\ UNCHANGED timeVars
    \/ Unmount /\ UNCHANGED timeVars
    \/ \E c \in DOMAIN sockets : SocketOpen(c) /\ UNCHANGED timeVars
    \/ \E c \in DOMAIN sockets : SocketClosed(c) /\ UNCHANGED timeVars
    \/ \E c \in DOMAIN sockets, f \in Frames :
            FrameArrives(c, f) /\ UNCHANGED timeVars
    \/ \E c \in DOMAIN sockets : DispatchMessage(c) /\ UNCHANGED timeVars
    \/ \E t \in 1..timerIds, outcome \in {"return", "throw"} :
            Tick(t, outcome) /\ UNCHANGED timeVars

Spec == Init /\ [][Next]_vars

(***************************************************************************)
(* stop() followed by start() on the same hook instance: both cleanups     *)
(* run, then both effect bodies run again with the new arguments; the refs *)
(* of the instance (socketRef, batchRef) are kept.                         *)
(***************************************************************************)
Restart(u, cb, ms) ==
    LET h == renders + 1
        stopped == [ss |-> useWebSocketCleanup(sockets, socketRef),
                    ts |-> clearInterval(timers, interval)]
    IN
    /\ phase = "running"
    /\ renders < MaxRenders
    /\ renders' = h
    /\ sockets' = useWebSocketEffect(stopped.ss, u, h)
    /\ socketRef' = Len(stopped.ss) + 1
    /\ wsDeps' = <<u, h>>
    /\ timers' = setInterval(stopped.ts, timerIds + 1, ms, cb)
    /\ timerIds' = timerIds + 1
    /\ interval' = timerIds + 1
    /\ timerDeps' = <<ms, cb>>
    /\ UNCHANGED <<phase, arrays, batchRef>>
    /\ UNCHANGED historyVars

NextRestart ==
    \/ Next
    \/ \E a \in Args : Restart(a[1], a[2], a[3]) /\ UNCHANGED timeVars

SpecRestart == Init /\ [][NextRestart]_vars

(***************************************************************************)
(* useWebSocket on its own: a component that calls useWebSocket(u, h) with *)
(* callback references h it holds across renders, and whose callbacks      *)
(* append to one array.                                                    *)
(***************************************************************************)
Urls == {"wss://a", "wss://b"}

Handlers == {"onMessageA", "onMessageB"}

\* a render of the component: the effect runs on the first render, and on a
\* later one runs its cleanup and then its body again when [url, onMessage]
\* changed
Activate(u, h) ==
    LET first == phase = "idle" IN
    /\ phase \in {"idle", "running"}
    /\ renders < MaxActivations
    /\ renders' = renders + 1
    /\ phase' = "running"
    /\ IF first \/ DepsChanged(wsDeps, <<u, h>>)
       THEN /\ sockets' = useWebSocketEffect(
                              IF first THEN sockets
                              ELSE useWebSocketCleanup(sockets, socketRef), u, h)
            /\ socketRef' = Len(sockets) + 1
            /\ wsDeps' = <<u, h>>
       ELSE UNCHANGED <<sockets, socketRef, wsDeps>>
    /\ arrays' = IF first THEN << <<>> >> ELSE arrays
    /\ batchRef' = 1
    /\ UNCHANGED <<timerDeps, interval, timers, timerIds>>
    /\ UNCHANGED historyVars

NextAdapter ==
    \/ /\ phase = "idle"
       /\ Activate(FirstArgs[1], "onMessageA")
       /\ UNCHANGED timeVars
    \/ /\ phase = "running"
       /\ \E u \in Urls, h \in Handlers : Activate(u, h)
       /\ UNCHANGED timeVars
    \/ Unmount /\ UNCHANGED timeVars
    \/ \E c \in DOMAIN sockets : SocketOpen(c) /\ UNCHANGED timeVars
    \/ \E c \in DOMAIN sockets : SocketClosed(c) /\ UNCHANGED timeVars
    \/ \E c \in DOMAIN sockets, f \in Frames :
            FrameArrives(c, f) /\ UNCHANGED timeVars
    \/ \E c \in DOMAIN sockets : DispatchMessage(c) /\ UNCHANGED timeVars

SpecAdapter == Init /\ [][NextAdapter]_vars

(***************************************************************************)
(* The hook with time: the active timer fires when batchInterval ms have   *)
(* passed since it was set or last fired, and time does not pass beyond    *)
(* that before it has fired.  onBatchMessage returns.                      *)
(***************************************************************************)
\* timer t is due
Due(t) == clock * Quantum = timers[t].period

\* Quantum ms pass
Advance ==
    /\ phase = "running"
    /\ clock * Quantum < timers[interval].period
    /\ clock' = clock + 1
    /\ waiting' = IF Buffer # <<>> THEN waiting + 1 ELSE 0
    /\ UNCHANGED <<hookVars, sockets, timers, timerIds, arrays, batchRef>>
    /\ UNCHANGED historyVars

NextTimed ==
    \/ /\ Mount(FirstArgs[1], FirstArgs[2], FirstArgs[3])
       /\ clock' = 0
       /\ waiting' = 0
    \/ \E a \in Args :
          /\ Rerender(a[1], a[2], a[3])
          /\ clock' = IF interval' # interval THEN 0 ELSE clock
          /\ waiting' = waiting
    \/ Unmount /\ UNCHANGED timeVars
    \/ \E c \in DOMAIN sockets : SocketOpen(c) /\ UNCHANGED timeVars
    \/ \E c \in DOMAIN sockets : SocketClosed(c) /\ UNCHANGED timeVars
    \/ \E c \in DOMAIN sockets, f \in Frames :
            FrameArrives(c, f) /\ UNCHANGED timeVars
    \/ \E c \in DOMAIN sockets :
          /\ DispatchMessage(c)
          /\ clock' = clock
          /\ waiting' = IF Buffer = <<>> THEN 0 ELSE waiting
    \/ \E t \in 1..timerIds :
          /\ Tick(t, "return")
          /\ Due(t)
          /\ clock' = 0
          /\ waiting' = 0
    \/ Advance

SpecTimed == Init /\ [][NextTimed]_vars

(***************************************************************************)
(* Vocabulary of the properties.                                           *)
(***************************************************************************)
Elems(seq) == {seq[k] : k \in DOMAIN seq}

Ids(seq) == {seq[k].id : k \in DOMAIN seq}

\* the message an onMessage invocation handed to the Coalescer
Handed(call) == [id |-> call.id, val |-> call.val]

\* the messages passed to onBatchMessage so far
Delivered == UNION {Elems(batches[i].msgs) : i \in DOMAIN batches}

\* position of a message in the order the Adapter delivered the messages
Arrival(m) == CHOOSE k \in DOMAIN onMessageCalls : onMessageCalls[k].id = m.id

IsSuffix(s, t) ==
    /\ Len(s) <= Len(t)
    /\ \A k \in 1..Len(s) : s[k] = t[Len(t) - Len(s) + k]

\* a step in which onBatchMessage is invoked, and the Batch it is invoked with
Invokes == Len(batches') = Len(batches) + 1

LastBatch == batches[Len(batches)]

\* a step in which a message event is fired on an OPEN socket, and its frame
Fires == Len(yielded') = Len(yielded) + 1

LastYielded == yielded[Len(yielded)]

\* the value JSON.parse returns for a well-formed frame
Decoded(data) ==
    IF data = FrameArr
    THEN [t |-> "arr", items |-> <<[t |-> "num", n |-> 1], [t |-> "num", n |-> 20]>>]
    ELSE [t |-> "none"]

(***************************************************************************)
(* C1.  No message is present in two different delivered Batches, whatever *)
(* the interleaving of appends, ticks, timer restarts and onBatch          *)
(* outcomes.  Fails on the code: after a throw the Buffer is not replaced  *)
(* and the next tick passes the same messages again.                       *)
(***************************************************************************)
NoMessageInTwoBatches ==
    \A i, j \in DOMAIN batches :
        i # j => Ids(batches[i].msgs) \cap Ids(batches[j].msgs) = {}

(***************************************************************************)
(* C2, as stated.  Once the final stop() has run, every message handed to  *)
(* the per-message handler has been passed to onBatch in some Batch.       *)
(***************************************************************************)
AllDeliveredAfterStop ==
    phase = "unmounted" =>
        \A k \in DOMAIN onMessageCalls : Handed(onMessageCalls[k]) \in Delivered

(***************************************************************************)
(* C2, amended.  No message handed to the per-message handler is lost      *)
(* while the Coalescer lives: it is in some delivered Batch or still in    *)
(* the Buffer (stop() does not flush, so what the Buffer holds at the      *)
(* final stop() stays there).                                              *)
(***************************************************************************)
HandedIsDeliveredOrBuffered ==
    \A k \in DOMAIN onMessageCalls :
        Handed(onMessageCalls[k]) \in Delivered \cup Elems(Buffer)

\* after a timer restart and the final stop(): one message was delivered and
\* another is left in the Buffer
StoppedWithBufferedMessage ==
    /\ phase = "unmounted"
    /\ timerIds >= 2
    /\ \E k \in DOMAIN onMessageCalls : Handed(onMessageCalls[k]) \in Delivered
    /\ \E k \in DOMAIN onMessageCalls :
          Handed(onMessageCalls[k]) \in Elems(Buffer) \ Delivered

(***************************************************************************)
(* C3.  A tick that follows N >= 1 appends since the previous tick invokes *)
(* onBatch exactly once, with exactly those N messages in arrival order,   *)
(* and leaves the Buffer empty, whatever the outcome of onBatch.  Fails on *)
(* the code when onBatch throws (see C1): the Buffer keeps the messages.   *)
(***************************************************************************)
TickDeliversExactlyPending ==
    [][ (sinceTick # <<>> /\ sinceTick' = <<>>) =>
            /\ Invokes
            /\ LastBatch'.msgs = sinceTick
            /\ Buffer' = <<>> ]_vars

(***************************************************************************)
(* C4.  onBatch is never invoked with an empty sequence: a tick that finds *)
(* the Buffer empty invokes nothing and leaves the Timer running and the   *)
(* Buffer unchanged.                                                       *)
(***************************************************************************)
EmptyTickIsNoOp ==
    [][ /\ Invokes => LastBatch'.msgs # <<>>
        /\ \A t \in DOMAIN timers, o \in {"return", "throw"} :
              (Buffer = <<>> /\ Tick(t, o)) =>
                  /\ batches' = batches
                  /\ timers' = timers
                  /\ batchRef' = batchRef
                  /\ arrays' = arrays ]_vars

\* the timer runs on an empty Buffer after a delivery: its tick is a step
\* from this state to itself
TimerRunsOnEmptyBuffer ==
    /\ phase = "running"
    /\ interval \in DOMAIN timers
    /\ batches # <<>>
    /\ Buffer = <<>>

(***************************************************************************)
(* C5.  A throw of onBatch during a tick does not cancel the Timer: the    *)
(* Timer stays live, and the next invocation passes the messages buffered  *)
(* since the throwing tick.                                                *)
(***************************************************************************)
ThrowKeepsTimer ==
    [][ /\ (Invokes /\ LastBatch'.outcome = "throw") =>
              /\ timers' = timers
              /\ interval \in DOMAIN timers'
        /\ (afterThrow /\ Invokes) =>
              /\ IsSuffix(sinceTick, LastBatch'.msgs)
              /\ LastBatch'.msgs = Buffer ]_vars

\* a tick threw, a message was buffered, and the next tick delivered it
DeliveredAfterThrow ==
    \E k \in 1..(Len(batches) - 1) :
        /\ batches[k].outcome = "throw"
        /\ Len(batches[k + 1].msgs) > Len(batches[k].msgs)

(***************************************************************************)
(* C6.  Ordering: within every delivered Batch the messages are in the     *)
(* order the Adapter delivered them, and every message of a Batch arrived  *)
(* no later than every message of the Batch delivered next.  Fails on the  *)
(* code after a throw (see C1): the next Batch starts again with the       *)
(* oldest message of the previous one.                                     *)
(***************************************************************************)
BatchOrdering ==
    /\ \A i \in DOMAIN batches : \A k \in 1..(Len(batches[i].msgs) - 1) :
          Arrival(batches[i].msgs[k]) < Arrival(batches[i].msgs[k + 1])
    /\ \A i \in 1..(Len(batches) - 1) :
          \A x \in Elems(batches[i].msgs), y \in Elems(batches[i + 1].msgs) :
              Arrival(x) <= Arrival(y)

(***************************************************************************)
(* C7.  A Batch is never mutated after delivery and never aliases the live *)
(* Buffer: the array passed to onBatch keeps the contents it was passed    *)
(* with, and batchRef.current is a different array.  Fails on the code     *)
(* after a throw (see C1): the delivered array stays the Buffer and the    *)
(* handler keeps pushing to it.                                            *)
(***************************************************************************)
BatchImmutableAndFresh ==
    \A i \in DOMAIN batches :
        /\ arrays[batches[i].arr] = batches[i].msgs
        /\ batchRef # batches[i].arr

(***************************************************************************)
(* C8.  A malformed frame is not fatal: its message event invokes no       *)
(* onMessage, adds nothing to the Buffer or to a Batch, and leaves the     *)
(* socket OPEN; no Message stems from a malformed frame, and every         *)
(* well-formed frame fired before or after it has been handed on.          *)
(***************************************************************************)
MalformedFrameNotFatal ==
    [][ /\ (Fires /\ LastYielded'.data \in MalformedFrames) =>
              /\ onMessageCalls' = onMessageCalls
              /\ arrays' = arrays
              /\ batches' = batches
              /\ sockets'[LastYielded'.conn].readyState = "OPEN"
        /\ \A k \in DOMAIN yielded' :
              IF yielded'[k].data \in MalformedFrames
              THEN yielded'[k].id \notin
                       Ids(onMessageCalls') \cup Ids(Buffer') \cup
                       UNION {Ids(batches'[i].msgs) : i \in DOMAIN batches'}
              ELSE yielded'[k].id \in Ids(onMessageCalls') ]_vars

\* a malformed frame was followed on the same socket by a well-formed one,
\* which reached a Batch
WellFormedAfterMalformed ==
    \E i, j \in DOMAIN yielded :
        /\ i < j
        /\ yielded[i].conn = yielded[j].conn
        /\ yielded[i].data \in MalformedFrames
        /\ yielded[j].data \in WellFormedFrames
        /\ \E b \in DOMAIN batches : yielded[j].id \in Ids(batches[b].msgs)

(***************************************************************************)
(* C9.  The onMessage invocations are exactly the well-formed frames fired *)
(* on an OPEN socket: one invocation per frame, in the order the transport *)
(* yielded them, each with the decoded message.                            *)
(***************************************************************************)
AdapterForwardsInOrder ==
    LET wf == SelectSeq(yielded, LAMBDA y : y.data \in WellFormedFrames) IN
    /\ Len(onMessageCalls) = Len(wf)
    /\ \A k \in DOMAIN wf :
          /\ onMessageCalls[k].id = wf[k].id
          /\ onMessageCalls[k].conn = wf[k].conn
          /\ onMessageCalls[k].val = Decoded(wf[k].data)

\* two well-formed frames were forwarded
TwoFramesForwarded == Len(onMessageCalls) >= 2

(***************************************************************************)
(* C10, as stated.  The Connection of the previous activation is closed on *)
(* every exit path and none of its handlers fires afterwards, so at most   *)
(* one Connection is Connecting or Open.                                   *)
(***************************************************************************)
Live == {c \in DOMAIN sockets : sockets[c].readyState \in {"CONNECTING", "OPEN"}}

ReleasedIsSilent ==
    [][ /\ Cardinality(Live') <= 1
        /\ \A c \in DOMAIN sockets :
              sockets[c].released =>
                  /\ sockets[c].readyState \in {"CLOSING", "CLOSED"}
                  /\ sockets'[c].readyState = sockets[c].readyState
                  /\ ~(Fires /\ LastYielded'.conn = c) ]_vars

(***************************************************************************)
(* C10, amended.  The Connection of the previous activation is closed on   *)
(* every exit path: it is Closing or Closed, only the new Connection       *)
(* (socketRef.current) can be Connecting or Open, and after the teardown   *)
(* none is.  Its onopen and onmessage handlers no longer fire; its onclose *)
(* handler, which the cleanup does not remove, still fires once when the   *)
(* close completes.                                                        *)
(***************************************************************************)
NoLeakedConnection ==
    [][ /\ Cardinality(Live') <= 1
        /\ Live' \subseteq {socketRef'}
        /\ phase' = "unmounted" => Live' = {}
        /\ \A c \in DOMAIN sockets :
              sockets[c].released =>
                  /\ sockets[c].readyState \in {"CLOSING", "CLOSED"}
                  /\ sockets'[c].readyState \in {sockets[c].readyState, "CLOSED"}
                  /\ ~(Fires /\ LastYielded'.conn = c) ]_vars

\* the Connection of the first activation was Open, received a message and
\* is now released and Closed, while the Connection of the second is Open
SecondConnectionOpen ==
    /\ Len(sockets) >= 2
    /\ sockets[1].released /\ sockets[1].readyState = "CLOSED"
    /\ sockets[2].readyState = "OPEN"
    /\ \E k \in DOMAIN onMessageCalls : onMessageCalls[k].conn = 1

(***************************************************************************)
(* C11.  After a Connection is Closed, or closed locally by the cleanup,   *)
(* onMessage is never invoked for it again, even when frames of it are     *)
(* still queued at the time of the close.                                  *)
(***************************************************************************)
\* the frames that were dropped: yielded by the transport, no longer queued,
\* and never fired
Queued == UNION {Ids(sockets[c].inbox) : c \in DOMAIN sockets}

Dropped == (1..received) \ (Ids(yielded) \cup Queued)

ClosedIsSilent ==
    [][ \A c \in DOMAIN sockets :
            (sockets[c].released \/ sockets[c].readyState \in {"CLOSING", "CLOSED"}) =>
                \A k \in DOMAIN onMessageCalls' :
                    k > Len(onMessageCalls) => onMessageCalls'[k].conn # c ]_vars

\* a frame that was queued on a socket when the cleanup closed it has been
\* dropped without an onMessage invocation
QueuedFrameDropped ==
    /\ Dropped # {}
    /\ \E c \in DOMAIN sockets : sockets[c].released
    /\ Dropped \cap Ids(onMessageCalls) = {}

(***************************************************************************)
(* C12.  At most one Timer is live per Coalescer in every reachable state: *)
(* the one whose id the cleanup holds while running, none otherwise.       *)
(***************************************************************************)
OneLiveTimer ==
    /\ Cardinality(DOMAIN timers) <= 1
    /\ phase = "running" => DOMAIN timers = {interval}
    /\ phase # "running" => DOMAIN timers = {}

\* the Timer was restarted by a change of onBatchMessage or batchInterval
TimerRestarted ==
    /\ timerIds >= 2
    /\ DOMAIN timers = {timerIds}
    /\ timers[timerIds] # [period |-> FirstArgs[3], cb |-> FirstArgs[2]]

(***************************************************************************)
(* C13.  stop() cancels the Timer and deactivates the Adapter: once it has *)
(* run, no Timer is live and no Connection is Connecting or Open, so no    *)
(* step invokes onBatch or appends a message to the Buffer.                *)
(***************************************************************************)
NothingAfterStop ==
    [][ /\ phase' = "unmounted" => (DOMAIN timers' = {} /\ Live' = {})
        /\ phase = "unmounted" =>
              /\ batches' = batches
              /\ arrays' = arrays
              /\ batchRef' = batchRef
              /\ onMessageCalls' = onMessageCalls ]_vars

\* stopped with a message in the Buffer, after a frame that was queued at
\* stop() was dropped
StoppedThenFrameDropped ==
    /\ phase = "unmounted"
    /\ Buffer # <<>>
    /\ Dropped # {}
    /\ Queued = {}

(***************************************************************************)
(* C16.  The Adapter never reconnects by itself: a Connection is created   *)
(* only by a render, and while the current Connection is Closed and no     *)
(* render happens, it stays Closed and no Connection becomes live.         *)
(***************************************************************************)
NoSelfReconnect ==
    [][ /\ Len(sockets') > Len(sockets) => renders' = renders + 1
        /\ ( /\ phase = "running"
             /\ sockets[socketRef].readyState = "CLOSED"
             /\ renders' = renders ) =>
               /\ socketRef' = socketRef
               /\ sockets'[socketRef].readyState = "CLOSED"
               /\ Live' = {} ]_vars

\* the current Connection was closed by the remote end (or failed to be
\* established) while the hook stays mounted, and the Timer has ticked since
ClosedWhileMounted ==
    /\ phase = "running"
    /\ sockets[socketRef].readyState = "CLOSED"
    /\ ~sockets[socketRef].released
    /\ Live = {}
    /\ batches # <<>>

(***************************************************************************)
(* C17.  stop() is idempotent: after the teardown, running the two         *)
(* cleanups once more raises no error and changes nothing.                 *)
(***************************************************************************)
StopTwiceIsStopOnce ==
    phase = "unmounted" =>
        /\ socketRef \in DOMAIN sockets
        /\ useWebSocketCleanup(sockets, socketRef) = sockets
        /\ clearInterval(timers, interval) = timers

\* stopped while the current socket is still in its closing handshake, or
\* after it was already closed by the remote end
StoppedClosingOrClosed ==
    /\ phase = "unmounted"
    /\ sockets[socketRef].readyState \in {"CLOSING", "CLOSED"}
    /\ \E c \in DOMAIN sockets : sockets[c].readyState = "CLOSED"
    /\ \E c \in DOMAIN sockets : sockets[c].readyState = "CLOSING"

(***************************************************************************)
(* C18.  A re-render of a running Coalescer with unchanged url,            *)
(* onBatchMessage and batchInterval neither closes nor re-opens the        *)
(* Connection.                                                             *)
(***************************************************************************)
SameConfigRerenderKeepsConnection ==
    [][ ( /\ phase = "running"
          /\ renders' = renders + 1
          /\ wsDeps'[1] = wsDeps[1]
          /\ timerDeps' = timerDeps ) =>
            /\ sockets' = sockets
            /\ socketRef' = socketRef ]_vars

(***************************************************************************)
(* C20.  Every delivered Batch contains messages of a single Connection    *)
(* only.                                                                   *)
(***************************************************************************)
\* the Connection whose message event handed message m to the Coalescer
ConnOf(m) == onMessageCalls[Arrival(m)].conn

SingleSessionBatches ==
    \A b \in DOMAIN batches :
        \A i, j \in DOMAIN batches[b].msgs :
            ConnOf(batches[b].msgs[i]) = ConnOf(batches[b].msgs[j])

ActivationIsKeyed ==
    [][ \A u \in Urls, h \in Handlers :
            (phase = "running" /\ Activate(u, h)) =>
                IF <<u, h>> = wsDeps
                THEN /\ sockets' = sockets
                     /\ socketRef' = socketRef
                ELSE /\ sockets'[socketRef].readyState \in {"CLOSING", "CLOSED"}
                     /\ sockets[socketRef].readyState \in {"CONNECTING", "OPEN"} =>
                            sockets'[socketRef].readyState = "CLOSING"
                     /\ Len(sockets') = Len(sockets) + 1
                     /\ socketRef' = Len(sockets) + 1
                     /\ sockets'[socketRef'].url = u
                     /\ sockets'[socketRef'].onmessage = h
                     /\ sockets'[socketRef'].readyState = "CONNECTING"
                     /\ \A c \in DOMAIN sockets \ {socketRef} :
                            sockets'[c] = sockets[c] ]_vars

\* three renders: one with the key of the render before it, which kept the
\* Connection, and one with a different callback reference and the same url,
\* which replaced it
SameKeyKeptOtherKeyReplaced ==
    /\ phase = "running"
    /\ renders = 3
    /\ Len(sockets) = 2
    /\ sockets[1].url = sockets[2].url
    /\ sockets[1].onmessage # sockets[2].onmessage
    /\ sockets[1].readyState \in {"CLOSING", "CLOSED"}
    /\ socketRef = 2

(***************************************************************************)
(* C19.  While the Coalescer is running and onBatchMessage does not throw, *)
(* no message stays in the Buffer for longer than batchInterval ms,        *)
(* restarts of the Timer included.                                         *)
(***************************************************************************)
DeliveredWithinInterval ==
    (phase = "running" /\ Buffer # <<>>) =>
        waiting * Quantum <= timers[interval].period

====
